---------------------------- MODULE Spec2Model ----------------------------
(***************************************************************************)
(* The trivia experiment (Streamlit) of Project3_5243: the balanced        *)
(* stimulus sampler, the instructions -> trials -> debrief flow, and the   *)
(* response log written to a local CSV file and mirrored to a Google sheet.*)
(*                                                                         *)
(* The repository holds four variants of the same script.  The variable    *)
(* app says which one runs:                                                *)
(*   "app"      src/experiment_app.py                                      *)
(*   "new"      src/experiment_app_new.py                                  *)
(*   "updated"  src/experiment_app_updated.py                              *)
(*   "new_code" src/new_app_code.py                                        *)
(*                                                                         *)
(* Streamlit re-executes the whole script on every interaction; one action *)
(* of the model is one participant interaction together with the script    *)
(* run(s) it causes (the run that handles the widget event and, when the   *)
(* handler calls st.rerun(), the run that follows).                        *)
(*                                                                         *)
(* Abstractions: the statement text, timestamp, variant and the            *)
(* python / platform / streamlit version columns are left out of the       *)
(* records; time is counted in whole ticks, so round(.., 2) changes        *)
(* nothing; a text is a sequence of characters; a photo file name is a     *)
(* sequence of name parts whose last part is the extension.                *)
(***************************************************************************)
EXTENDS Integers, Sequences, FiniteSets, TLC

VARIABLES
    app,             \* which variant of the script runs
    bank,            \* stimuli.json: the list of candidate statements
    n_true,          \* N_TRUE / n_true
    n_false,         \* N_FALSE / n_false
    n_photo_each,    \* N_PHOTO_EACH / n_photo_each
    now,             \* time.time()
    participant_id,  \* st.session_state.participant_id / pid
    group,           \* st.session_state.group / prompt_group
    stimuli,         \* st.session_state.stimuli_subset / stimuli
    responses,       \* st.session_state.responses / log
    idx,             \* st.session_state.current_index / idx / index
    start_time,      \* st.session_state.start_time / t_start / clock
    show_instructions, \* not instructions_shown / show_instructions / show_instruct
    page,            \* the branch of the flow the last script run rendered
    error,           \* the uncaught exception that ended the last script run
    csv_exists,      \* os.path.exists(master_file) / CSV_FILE.exists()
    csv,             \* the rows of the local CSV file
    sheet,           \* the rows of the remote worksheet
    warned,          \* the last run showed the "Google-Sheets write failed" warning
    mirror,          \* what the worksheet did at the last flush ("none": no flush yet)
    event,           \* the interaction the last step handled, with its inputs
    first_shown,     \* first_shown[i]: the time trial i was displayed for the first time
    peers            \* sessions of other participants that are running finish()

vars == <<app, bank, n_true, n_false, n_photo_each, now, participant_id, group,
          stimuli, responses, idx, start_time, show_instructions, page, error,
          csv_exists, csv, sheet, warned, mirror, event, first_shown, peers>>

----------------------------------------------------------------------------
(* Bounds of the model *)

BankSize == 4      \* entries of the bank, sampler specification
MaxQuota == 2      \* largest n_true, n_false and n_photo_each drawn
MaxTime  == 2      \* the clock stops ticking here
MaxStore == 5      \* no further flush once the local file holds this many rows

----------------------------------------------------------------------------
(* Python values *)

Apps == {"app", "new", "updated", "new_code"}

\* The value of a clock that is not running: the key is absent (app), None
\* (new, updated) or 0.0 (new_code).  time.time() is never 0.
UnsetClock == 0

\* photo: None in stimuli.json
NoPhoto == <<>>
Photos == {NoPhoto, <<"a", ".png">>, <<"a", ".jpg">>}

Min(a, b) == IF a < b THEN a ELSE b

\* str.endswith, on a file name given as its parts
endswith(name, suffix) == Len(name) > 0 /\ name[Len(name)] = suffix

\* str.strip(): leading and trailing whitespace removed
RECURSIVE lstrip(_)
lstrip(s) == IF s # <<>> /\ Head(s) = " " THEN lstrip(Tail(s)) ELSE s

RECURSIVE rstrip(_)
rstrip(s) ==
    IF s # <<>> /\ s[Len(s)] = " " THEN rstrip(SubSeq(s, 1, Len(s) - 1)) ELSE s

strip(s) == rstrip(lstrip(s))

\* random.shuffle(list): every order of the list
shuffle(list) ==
    { [i \in 1..Len(list) |-> list[p[i]]] : p \in Permutations(1..Len(list)) }

\* Mutant of random_sample: entries drawn with replacement
random_sample_replacing(pool, n) ==
    { [i \in 1..n |-> pool[f[i]]] : f \in [1..n -> 1..Len(pool)] }

\* random.sample(pool, n) for n <= len(pool): n entries at distinct positions,
\* in any order.  (n > len(pool) raises ValueError: see SampleFails.)
random_sample(pool, n) ==
    { [i \in 1..n |-> pool[f[i]]] :
        f \in { g \in [1..n -> 1..Len(pool)] :
                  \A i, j \in 1..n : i # j => g[i] # g[j] } }

RECURSIVE SelectIds(_)
SelectIds(list) ==
    IF list = <<>> THEN {} ELSE {Head(list).id} \cup SelectIds(Tail(list))

----------------------------------------------------------------------------
(* The sampler *)

\* Mutant of has_photo: every entry counts as having a photo
has_photo_always(s) == TRUE

\* Stimulus.has_photo (new, updated), Stimulus.path (new_code)
has_photo(s) == s.photo # NoPhoto /\ endswith(s.photo, ".png")

\* s["photo"] as a condition (app)
photo_truthy(s) == s.photo # NoPhoto

IsTrue(s) == s.truth
IsFalse(s) == ~s.truth

\* Mutant of PhotoWalk: the quota tests read <= instead of <
RECURSIVE PhotoWalkOffByOne(_, _, _, _)
PhotoWalkOffByOne(with_photo, t, f, quota) ==
    IF with_photo = <<>> THEN {}
    ELSE LET s == Head(with_photo)
             flag_t == s.truth /\ t <= quota
             flag_f == ~flag_t /\ ~s.truth /\ f <= quota
             t2 == IF flag_t THEN t + 1 ELSE t
             f2 == IF flag_f THEN f + 1 ELSE f
             here == IF flag_t \/ flag_f THEN {s.id} ELSE {}
         IN  here \cup PhotoWalkOffByOne(Tail(with_photo), t2, f2, quota)

\* Mutant of PhotoWalk: the loop stops as soon as one of the two quotas is met
RECURSIVE PhotoWalkStopsEarly(_, _, _, _)
PhotoWalkStopsEarly(with_photo, t, f, quota) ==
    IF with_photo = <<>> THEN {}
    ELSE LET s == Head(with_photo)
             flag_t == s.truth /\ t < quota
             flag_f == ~flag_t /\ ~s.truth /\ f < quota
             t2 == IF flag_t THEN t + 1 ELSE t
             f2 == IF flag_f THEN f + 1 ELSE f
             here == IF flag_t \/ flag_f THEN {s.id} ELSE {}
         IN  IF t2 = quota \/ f2 = quota
             THEN here
             ELSE here \cup PhotoWalkStopsEarly(Tail(with_photo), t2, f2, quota)

\* The loop of create_subset / balanced_subset over with_photo: the ids it
\* flags, t and f being the counts flagged so far.
RECURSIVE PhotoWalk(_, _, _, _)
PhotoWalk(with_photo, t, f, quota) ==
    IF with_photo = <<>> THEN {}
    ELSE LET s == Head(with_photo)
             flag_t == s.truth /\ t < quota
             flag_f == ~flag_t /\ ~s.truth /\ f < quota
             t2 == IF flag_t THEN t + 1 ELSE t
             f2 == IF flag_f THEN f + 1 ELSE f
             here == IF flag_t \/ flag_f THEN {s.id} ELSE {}
         IN  IF t2 = quota /\ f2 = quota
             THEN here
             ELSE here \cup PhotoWalk(Tail(with_photo), t2, f2, quota)

SetFlags(list, ids) ==
    [i \in 1..Len(list) |->
        IF list[i].id \in ids THEN [list[i] EXCEPT !.show_photo = TRUE]
        ELSE list[i]]

\* create_subset (new, updated), balanced_subset (new_code): every list the
\* function can return
create_subset(pool, nt, nf, np) ==
    LET true_pool  == SelectSeq(pool, IsTrue)
        false_pool == SelectSeq(pool, IsFalse)
        combos == UNION { shuffle(t \o f) :
                            t \in random_sample(true_pool, nt),
                            f \in random_sample(false_pool, nf) }
    IN  UNION { { SetFlags(combo, PhotoWalk(wp, 0, 0, np)) :
                    wp \in shuffle(SelectSeq(combo, has_photo)) } :
                combo \in combos }

\* assign_photos (app): show_photo is assigned on every sampled entry
assign_photos(sampled, n_photo) ==
    LET with_photo == SelectSeq(sampled, photo_truthy)
    IN  { [i \in 1..Len(sampled) |->
              [sampled[i] EXCEPT !.show_photo = (sampled[i].id \in SelectIds(sel))]] :
          sel \in random_sample(with_photo, Min(n_photo, Len(with_photo))) }

\* create_balanced_stimuli (app): every list the function can return
create_balanced_stimuli(pool, nt, nf, np) ==
    LET true_pool  == SelectSeq(pool, IsTrue)
        false_pool == SelectSeq(pool, IsFalse)
    IN  UNION { UNION { shuffle(bt \o bf) :
                          bt \in assign_photos(st, np),
                          bf \in assign_photos(sf, np) } :
                st \in random_sample(true_pool, nt),
                sf \in random_sample(false_pool, nf) }

\* random.sample raises ValueError when the pool holds fewer than n entries
SampleFails(pool, nt, nf) ==
    \/ Len(SelectSeq(pool, IsTrue)) < nt
    \/ Len(SelectSeq(pool, IsFalse)) < nf

Sampler(a, pool, nt, nf, np) ==
    IF a = "app" THEN create_balanced_stimuli(pool, nt, nf, np)
    ELSE create_subset(pool, nt, nf, np)


----------------------------------------------------------------------------
(* Responses *)

\* What the participant can type into the text area
Texts == { <<>>, <<" ">>, <<" ", "a">>, <<"N", "A">> }

\* The radio of app starts on a sentinel; the radio of the form variants
\* offers the two labels only and starts on "True".
Sentinel == "-- Select an answer --"
Answers(a) == IF a = "app" THEN {Sentinel, "True", "False"} ELSE {"True", "False"}

Groups == {"Explain", "Emotion"}

\* The dict appended by app (experiment_app.py): the answer is the label,
\* the text is stored as typed
ResponseApp(pid, grp, stim, answer, response_text, rt) ==
    [ participant_id |-> pid, group |-> grp, stimulus_id |-> stim.id,
      truth |-> stim.truth, photo |-> stim.photo, show_photo |-> stim.show_photo,
      answer |-> answer, response_text |-> response_text, response_time |-> rt ]

\* The dict appended by new and updated
ResponseForm(pid, grp, stim, ans, txt, rt) ==
    [ participant_id |-> pid, prompt_group |-> grp, stimulus_id |-> stim.id,
      truth |-> stim.truth, answer |-> (ans = "True"),
      correct |-> ((ans = "True") = stim.truth), response_text |-> strip(txt),
      show_photo |-> stim.show_photo, rt |-> rt ]

MakeResponse(a, pid, grp, stim, ans, txt, rt) ==
    IF a = "app" THEN ResponseApp(pid, grp, stim, ans, txt, rt)
    ELSE ResponseForm(pid, grp, stim, ans, txt, rt)

\* Mutant of Rejected: the two tests joined by "and" (app), the test of the
\* text done without strip (form variants)
RejectedLax(a, ans, txt) ==
    IF a = "app" THEN ans = Sentinel /\ strip(txt) = <<>>
    ELSE txt = <<>>

\* The validation of a submit: what makes the handler take its warning branch
Rejected(a, ans, txt) ==
    IF a = "app" THEN ans = Sentinel \/ strip(txt) = <<>>
    ELSE strip(txt) = <<>>

----------------------------------------------------------------------------
(* pandas: DataFrame, read_csv, concat, to_csv, astype(str) *)

\* A missing value of a DataFrame
NaN == <<"NaN">>

\* Among the strings pd.read_csv reads as missing by default: the empty cell
\* and NA
NaValues == { <<>>, <<"N", "A">> }

Map(f(_), seq) == [i \in 1..Len(seq) |-> f(seq[i])]

\* str(b) of a Python bool
PyStr(b) == IF b THEN "True" ELSE "False"

\* The row of app has a photo column, the row of the form variants has not.
IsAppRow(r) == "photo" \in DOMAIN r

\* to_csv of a row built from a response dict: booleans are written as
\* True / False, None as the empty cell, text as it is
to_csv_fresh(r) ==
    IF IsAppRow(r)
    THEN [r EXCEPT !.truth = PyStr(r.truth), !.show_photo = PyStr(r.show_photo)]
    ELSE [r EXCEPT !.truth = PyStr(r.truth), !.show_photo = PyStr(r.show_photo),
                   !.answer = PyStr(r.answer), !.correct = PyStr(r.correct)]

\* read_csv of one line of the file: True / False columns become booleans,
\* a cell holding one of the missing-value strings becomes NaN
read_text(cell) == IF cell \in NaValues THEN NaN ELSE cell

read_csv_row(line) ==
    IF IsAppRow(line)
    THEN [line EXCEPT !.truth = (line.truth = "True"),
                      !.show_photo = (line.show_photo = "True"),
                      !.answer = (line.answer = "True"),
                      !.photo = read_text(line.photo),
                      !.response_text = read_text(line.response_text)]
    ELSE [line EXCEPT !.truth = (line.truth = "True"),
                      !.show_photo = (line.show_photo = "True"),
                      !.answer = (line.answer = "True"),
                      !.correct = (line.correct = "True"),
                      !.response_text = read_text(line.response_text)]

\* to_csv of a row that read_csv produced: NaN is written as the empty cell
write_text(v) == IF v = NaN THEN <<>> ELSE v

to_csv_parsed(row) ==
    IF IsAppRow(row)
    THEN [row EXCEPT !.truth = PyStr(row.truth),
                     !.show_photo = PyStr(row.show_photo),
                     !.answer = PyStr(row.answer),
                     !.photo = write_text(row.photo),
                     !.response_text = write_text(row.response_text)]
    ELSE [row EXCEPT !.truth = PyStr(row.truth),
                     !.show_photo = PyStr(row.show_photo),
                     !.answer = PyStr(row.answer),
                     !.correct = PyStr(row.correct),
                     !.response_text = write_text(row.response_text)]

RewriteLine(line) == to_csv_parsed(read_csv_row(line))

\* df.astype(str): what is sent to the worksheet.  NaN becomes "nan", None
\* becomes "None".
str_text(v) == IF v = NaN THEN <<"nan">> ELSE v

astype_str_parsed(row) ==
    LET w == to_csv_parsed(row)
    IN  IF IsAppRow(row)
        THEN [w EXCEPT !.photo = str_text(row.photo),
                       !.response_text = str_text(row.response_text)]
        ELSE [w EXCEPT !.response_text = str_text(row.response_text)]

astype_str_fresh(r) ==
    IF IsAppRow(r)
    THEN [to_csv_fresh(r) EXCEPT !.photo = IF r.photo = NoPhoto THEN <<"None">> ELSE r.photo]
    ELSE to_csv_fresh(r)

SheetLine(line) == astype_str_parsed(read_csv_row(line))

\* df = pd.DataFrame(responses); if the file exists:
\* df = pd.concat([pd.read_csv(file), df], ignore_index=True);
\* df.to_csv(file, index=False): the lines the file holds afterwards
MergedCsv(exists, file, resp) ==
    IF exists THEN Map(RewriteLine, file) \o Map(to_csv_fresh, resp)
    ELSE Map(to_csv_fresh, resp)

\* The rows of df handed to the worksheet helper: the merged frame
MergedSheetRows(exists, file, resp) ==
    IF exists THEN Map(SheetLine, file) \o Map(astype_str_fresh, resp)
    ELSE Map(astype_str_fresh, resp)


----------------------------------------------------------------------------
(* The remote mirror *)

\* What the worksheet does with an append at the end of a session:
\*   "ok"       every row is appended
\*   "fail"     authorize / open / the first append raises
\*   "partial"  app only: append_row raises after the first row went through
\*   "off"      new only: GSPREAD_KEY is not configured, the helper is a no-op
Remotes(a) ==
    CASE a = "app"     -> {"ok", "fail", "partial"}
      [] a = "new"     -> {"ok", "fail", "off"}
      [] OTHER         -> {"ok", "fail"}

\* The rows that reach the worksheet
Appended(rows, remote) ==
    CASE remote = "ok"      -> rows
      [] remote = "partial" -> SubSeq(rows, 1, 1)
      [] OTHER              -> <<>>

RemoteRaises(remote) == remote \in {"fail", "partial"}

\* Only updated wraps the helper in try / except and turns the exception
\* into st.warning
Catches(a) == a = "updated"

----------------------------------------------------------------------------
(* One script run without a widget event *)

\* Mutant of Branch: the trial branch is left one trial early
BranchEarly(a, si, i, list) ==
    IF (IF a = "app" THEN i = 0 /\ si ELSE si) THEN "instructions"
    ELSE IF i < Len(list) - 1 THEN "trial"
    ELSE "debrief"

\* Mutant of Branch: past the last trial the flow falls back to the
\* instructions page
BranchRestarts(a, si, i, list) ==
    IF (IF a = "app" THEN i = 0 /\ si ELSE si) THEN "instructions"
    ELSE IF i < Len(list) THEN "trial"
    ELSE "instructions"

\* The flow after the session defaults: which branch runs
Branch(a, si, i, list) ==
    IF (IF a = "app" THEN i = 0 /\ si ELSE si) THEN "instructions"
    ELSE IF i < Len(list) THEN "trial"
    ELSE "debrief"

\* Mutant of ClockGuard: the guard is missing, the clock stays as it is
ClockGuardMissing(clk, t) == clk

\* if "start_time" not in st.session_state / if ss.t_start is None /
\* if not ss.clock: the clock after the guard
ClockGuard(clk, t) == IF clk = UnsetClock THEN t ELSE clk

\* The debrief branch: finish() / debrief_page() / the else branch of app.
\* The file is written first, then the worksheet helper is called with the
\* merged frame.  new_code calls save_to_gsheet, a name it never defines.
Finish(a, exists, file, sh, resp, remote) ==
    LET rows == MergedSheetRows(exists, file, resp)
    IN  [ csv_exists |-> TRUE,
          csv        |-> MergedCsv(exists, file, resp),
          sheet      |-> IF a = "new_code" THEN sh ELSE sh \o Appended(rows, remote),
          error      |-> IF a = "new_code" THEN "NameError"
                         ELSE IF RemoteRaises(remote) /\ ~Catches(a)
                              THEN "RemoteError" ELSE "none",
          warned     |-> a # "new_code" /\ RemoteRaises(remote) /\ Catches(a),
          mirror     |-> IF a = "new_code" THEN "none" ELSE remote ]

\* The state a script run leaves, given the session state it starts from
Render(a, si, i, clk, list, resp, exists, file, sh, remote) ==
    LET b == Branch(a, si, i, list)
        fin == Finish(a, exists, file, sh, resp, remote)
    IN  [ page       |-> b,
          start_time |-> IF b = "trial" THEN ClockGuard(clk, now) ELSE clk,
          csv_exists |-> IF b = "debrief" THEN fin.csv_exists ELSE exists,
          csv        |-> IF b = "debrief" THEN fin.csv ELSE file,
          sheet      |-> IF b = "debrief" THEN fin.sheet ELSE sh,
          error      |-> IF b = "debrief" THEN fin.error ELSE "none",
          warned     |-> b = "debrief" /\ fin.warned,
          mirror     |-> IF b = "debrief" THEN fin.mirror ELSE mirror,
          first_shown |-> IF b = "trial" /\ Len(first_shown) <= i
                          THEN Append(first_shown, now) ELSE first_shown ]

\* The variables a script run sets from what Render computed
Rendered(r) ==
    /\ page' = r.page
    /\ start_time' = r.start_time
    /\ csv_exists' = r.csv_exists
    /\ csv' = r.csv
    /\ sheet' = r.sheet
    /\ error' = r.error
    /\ warned' = r.warned
    /\ mirror' = r.mirror
    /\ first_shown' = r.first_shown

Config == <<app, bank, n_true, n_false, n_photo_each>>

----------------------------------------------------------------------------
(* Actions *)

\* uuid.uuid4(): the id of this session, and the id of the participant whose
\* rows the file already holds
FreshPid == 2
PriorPid == 1
NoPid == 0

NoEvent == [kind |-> "none", answer |-> "", text |-> <<>>]
Event(k) == [kind |-> k, answer |-> "", text |-> <<>>]

\* Mutant of SetDefault: the default is stored whether or not the key is there
SetDefaultOverwrites(present, old, candidates) == candidates

\* ss.setdefault(key, value) / if key not in st.session_state: the values the
\* key can hold afterwards.  (The form variants evaluate create_subset(...)
\* on every run and setdefault drops the result when the key is there.)
SetDefault(present, old, candidates) == IF present THEN {old} ELSE candidates

\* The session defaults at the top of a run of a session that has its keys
SessionDefaults ==
    /\ participant_id' \in SetDefault(participant_id # NoPid, participant_id, {FreshPid})
    /\ group' \in SetDefault(participant_id # NoPid, group, Groups)
    /\ stimuli' \in SetDefault(stimuli # <<>>, stimuli,
                               Sampler(app, bank, n_true, n_false, n_photo_each))

\* Mutant of FirstRun: the sampler takes what the pool has when the pool is
\* smaller than the quota, and the session starts with a shorter list
FirstRunClamps ==
    /\ page = "none"
    /\ participant_id' = FreshPid
    /\ \E g \in Groups : group' = g
    /\ \E list \in Sampler(app, bank,
                            Min(n_true, Len(SelectSeq(bank, IsTrue))),
                            Min(n_false, Len(SelectSeq(bank, IsFalse))),
                            n_photo_each) :
          stimuli' = list
    /\ responses' = <<>>
    /\ idx' = 0
    /\ start_time' = UnsetClock
    /\ show_instructions' = TRUE
    /\ error' = "none"
    /\ page' = "instructions"
    /\ event' = Event("first_run")
    /\ UNCHANGED <<Config, now, csv_exists, csv, sheet, warned, mirror, first_shown,
                   peers>>

\* The first run of the script in a new browser session: the session
\* defaults.  With a pool too small for the quotas random.sample raises and
\* the run ends before stimuli, responses and the index are stored.
FirstRun ==
    /\ page = "none"
    /\ participant_id' = FreshPid
    /\ \E g \in Groups : group' = g
    /\ IF SampleFails(bank, n_true, n_false)
       THEN /\ error' = "ValueError"
            /\ page' = "error"
            /\ UNCHANGED <<stimuli, responses, idx, start_time, show_instructions>>
       ELSE /\ \E list \in Sampler(app, bank, n_true, n_false, n_photo_each) :
                  stimuli' = list
            /\ responses' = <<>>
            /\ idx' = 0
            /\ start_time' = UnsetClock
            /\ show_instructions' = TRUE
            /\ error' = "none"
            /\ page' = "instructions"
    /\ event' = Event("first_run")
    /\ UNCHANGED <<Config, now, csv_exists, csv, sheet, warned, mirror, first_shown,
                   peers>>

\* "Start Quiz" / "Start": the flag is set and st.rerun() runs the flow again
Start ==
    /\ page = "instructions"
    /\ show_instructions' = FALSE
    /\ \E remote \in Remotes(app) :
         Rendered(Render(app, FALSE, idx, start_time, stimuli, responses,
                         csv_exists, csv, sheet, remote))
    /\ event' = Event("start")
    /\ SessionDefaults
    /\ UNCHANGED <<Config, now, responses, idx, peers>>

\* Any other re-evaluation of the flow (the Rerun command, a reconnect): the
\* script runs with no widget event.  After a failed sampling the run fails
\* the same way again.
Rerun ==
    /\ page # "none"
    /\ \/ Branch(app, show_instructions, idx, stimuli) # "debrief"
       \/ Len(csv) < MaxStore
    /\ IF page = "error"
       THEN UNCHANGED <<page, start_time, csv_exists, csv, sheet, error, warned, mirror,
                        first_shown, participant_id, group, stimuli>>
       ELSE /\ SessionDefaults
            /\ \E remote \in Remotes(app) :
                 Rendered(Render(app, show_instructions, idx, start_time, stimuli,
                                 responses, csv_exists, csv, sheet, remote))
    /\ event' = Event("rerun")
    /\ UNCHANGED <<Config, now, responses, idx, show_instructions, peers>>

\* Time passes between two interactions
Tick ==
    /\ now < MaxTime
    /\ now' = now + 1
    /\ UNCHANGED <<Config, participant_id, group, stimuli, responses, idx,
                   start_time, show_instructions, page, error, csv_exists, csv,
                   sheet, warned, mirror, event, first_shown, peers>>


\* Mutant of NextIndex: the index is advanced twice
NextIndexSkips(i) == i + 2

\* Mutant of NextIndex: the index is not advanced
NextIndexStays(i) == i

\* st.session_state.current_index += 1 / ss.idx += 1 / ss.index += 1
NextIndex(i) == i + 1

\* The clock a recorded submit leaves: new, updated and new_code clear it,
\* app never touches start_time again
ClockAfterRecord(a, clk) == IF a = "app" THEN clk ELSE UnsetClock

\* "Submit and Continue" / "Submit & Next" with the answer and the text the
\* widgets hold.  The run reaches the trial branch, passes the clock guard,
\* then handles the click:
\*   - the warning branch changes nothing more;
\*   - new_code clears the clock and then raises NameError while building the
\*     dict (platform is never imported): nothing is appended, idx stays;
\*   - otherwise the response is appended, idx advances and st.rerun() runs
\*     the flow again (the next trial, or the debrief branch).
Submit(ans, txt) ==
    /\ page = "trial"
    /\ event' = [kind |-> "submit", answer |-> ans, text |-> txt]
    /\ SessionDefaults
    /\ UNCHANGED <<Config, now, show_instructions, peers>>
    /\ LET clk == ClockGuard(start_time, now)
           stim == stimuli[idx + 1]
       IN  IF Rejected(app, ans, txt)
           THEN /\ start_time' = clk
                /\ page' = "trial"
                /\ error' = "none"
                /\ warned' = FALSE
                /\ UNCHANGED <<responses, idx, csv_exists, csv, sheet, mirror, first_shown>>
           ELSE IF app = "new_code"
           THEN /\ start_time' = UnsetClock
                /\ page' = "trial"
                /\ error' = "NameError"
                /\ warned' = FALSE
                /\ UNCHANGED <<responses, idx, csv_exists, csv, sheet, mirror, first_shown>>
           ELSE /\ responses' = Append(responses,
                                   MakeResponse(app, participant_id, group, stim,
                                                ans, txt, now - clk))
                /\ idx' = NextIndex(idx)
                /\ \E remote \in Remotes(app) :
                     Rendered(Render(app, show_instructions, idx', ClockAfterRecord(app, clk),
                                     stimuli, responses', csv_exists, csv, sheet, remote))

Next ==
    \/ FirstRun
    \/ Start
    \/ \E ans \in Answers(app), txt \in Texts : Submit(ans, txt)
    \/ Rerun
    \/ Tick

----------------------------------------------------------------------------
(* Initial states *)

Stimulus(i, truth, photo) ==
    [id |-> i, truth |-> truth, photo |-> photo, show_photo |-> FALSE]

\* The bank of the session specification: one true statement with a .png
\* photo, a false one without photo and a false one with a .jpg photo.  (With
\* n_true = 2 this bank is too small and sampling fails.)
SessionBank ==
    << Stimulus(1, TRUE, <<"a", ".png">>), Stimulus(2, FALSE, NoPhoto),
       Stimulus(3, FALSE, <<"a", ".jpg">>) >>

\* The file an earlier participant left: no file, or the file written at the
\* end of a session in which the participant typed "a" and then "NA"
PriorResponses(a, pool) ==
    << MakeResponse(a, PriorPid, "Explain", [pool[1] EXCEPT !.show_photo = TRUE],
                    "True", <<"a">>, 1),
       MakeResponse(a, PriorPid, "Explain", pool[2], "False", <<"N", "A">>, 2) >>

PriorFile(a, pool) == MergedCsv(FALSE, <<>>, PriorResponses(a, pool))

SessionUnstarted ==
    /\ participant_id = NoPid
    /\ group = "Explain"
    /\ stimuli = <<>>
    /\ responses = <<>>
    /\ idx = 0
    /\ start_time = UnsetClock
    /\ show_instructions = TRUE
    /\ page = "none"
    /\ error = "none"
    /\ sheet = <<>>
    /\ warned = FALSE
    /\ mirror = "none"
    /\ event = NoEvent
    /\ first_shown = <<>>
    /\ now = 1

Init ==
    /\ app \in Apps
    /\ bank = SessionBank
    /\ n_true \in {1, 2}
    /\ n_false \in {1, 3}
    /\ n_photo_each = 1
    /\ csv_exists \in BOOLEAN
    /\ csv = IF csv_exists THEN PriorFile(app, bank) ELSE <<>>
    /\ peers = <<>>
    /\ SessionUnstarted

Spec == Init /\ [][Next]_vars


----------------------------------------------------------------------------
(* The sampler on its own: every bank of BankSize entries, every quota up  *)
(* to MaxQuota, and the first run of the script, which samples.            *)

PhotoRank(photo) ==
    CASE photo = NoPhoto          -> 0
      [] photo = <<"a", ".png">>  -> 1
      [] OTHER                    -> 2

KindRank(k) == (IF k[1] THEN 0 ELSE 3) + PhotoRank(k[2])

\* The banks of n entries with ids 1..n, listed in a fixed order of their
\* kinds (sampling and shuffling take entries at any position, so the order
\* of the bank does not matter to what the sampler can return)
Banks(n) ==
    { [i \in 1..n |-> Stimulus(i, k[i][1], k[i][2])] :
        k \in { f \in [1..n -> BOOLEAN \X Photos] :
                  \A i \in 1..(n - 1) : KindRank(f[i]) <= KindRank(f[i + 1]) } }

SamplerInit ==
    /\ app \in Apps
    /\ bank \in Banks(BankSize)
    /\ n_true \in 1..MaxQuota
    /\ n_false \in 1..MaxQuota
    /\ n_photo_each \in 1..MaxQuota
    /\ csv_exists = FALSE
    /\ csv = <<>>
    /\ peers = <<>>
    /\ SessionUnstarted

SamplerNext == FirstRun

SamplerSpec == SamplerInit /\ [][SamplerNext]_vars


----------------------------------------------------------------------------
(* Vocabulary of the properties *)

\* A session exists and its trial list was stored
Started == page # "none" /\ error # "ValueError"

\* The state of the controller
InDebrief == Started /\ Branch(app, show_instructions, idx, stimuli) = "debrief"

ValidLabel(ans) == ans \in {"True", "False"}
ValidSubmit(ans, txt) == ValidLabel(ans) /\ strip(txt) # <<>>

RECURSIVE CountRows(_, _)
CountRows(rows, pid) ==
    IF rows = <<>> THEN 0
    ELSE (IF Head(rows).participant_id = pid THEN 1 ELSE 0) + CountRows(Tail(rows), pid)

ResponsesOf(sid) == { k \in 1..Len(responses) : responses[k].stimulus_id = sid }

\* A step in which the script ran the debrief branch (Tick is the only step
\* that moves the time, and it runs no script)
FlushStep == page' = "debrief" /\ now' = now /\ vars' # vars

Count(list, P(_)) == Len(SelectSeq(list, P))

IsTrueShown(s) == s.truth /\ s.show_photo
IsFalseShown(s) == ~s.truth /\ s.show_photo
IsTruePhoto(s) == s.truth /\ s.photo # NoPhoto
IsFalsePhoto(s) == ~s.truth /\ s.photo # NoPhoto

\* The photo of s is one the running variant can flag
Usable(s) == IF app = "app" THEN photo_truthy(s) ELSE has_photo(s)
IsTrueUsable(s) == s.truth /\ Usable(s)
IsFalseUsable(s) == ~s.truth /\ Usable(s)

----------------------------------------------------------------------------
(* C1..C7: the session *)

\* C1: in every step the cursor stays or advances by exactly one, it
\* advances only in a step that handles a submit with a valid answer label
\* and a text that is non-empty after trimming, and it never exceeds the
\* length of the trial list.
C1_CursorSteps ==
    [][ /\ \/ idx' = idx
           \/ /\ idx' = idx + 1
              /\ \E ans \in Answers(app), txt \in Texts :
                   ValidSubmit(ans, txt) /\ Submit(ans, txt)
        /\ idx' <= Len(stimuli') ]_vars

\* A valid submit has just moved the cursor to the end of the list
C1_Witness ==
    /\ event.kind = "submit"
    /\ ValidSubmit(event.answer, event.text)
    /\ idx = Len(stimuli)
    /\ idx = 2

\* C2 (as claimed): a submit with an empty or blank text, or with the
\* sentinel answer, leaves the cursor, the responses and the clock as they
\* were.
C2_RejectedSubmitMutatesNothing ==
    [][ \A ans \in Answers(app), txt \in Texts :
          (~ValidSubmit(ans, txt) /\ Submit(ans, txt))
             => UNCHANGED <<idx, responses, start_time>> ]_vars

\* C3: no stimulus id appears in two responses, and once the session is in
\* the debrief state every entry of the trial list has exactly one response.
C3_RecordedOnce ==
    /\ \A j, k \in 1..Len(responses) :
         responses[j].stimulus_id = responses[k].stimulus_id => j = k
    /\ InDebrief =>
         /\ Len(responses) = Len(stimuli)
         /\ \A i \in 1..Len(stimuli) : Cardinality(ResponsesOf(stimuli[i].id)) = 1

\* The flow was re-evaluated in the debrief state of a completed session
C3_Witness ==
    /\ InDebrief
    /\ event.kind = "rerun"
    /\ Len(responses) = 2

\* C4 (as claimed): the merge and write of the local file happens at most
\* once per session, so the file never holds more rows of the session than
\* the session has responses.
C4_FlushedOnce == Started => CountRows(csv, participant_id) <= Len(responses)

\* C5 (as claimed): a flush leaves the lines the file held before, unchanged
\* and in their order, followed by the session's rows in submission order
\* (just the session's rows when there was no file).
C5_FlushAppends ==
    [][ FlushStep =>
          csv' = (IF csv_exists THEN csv ELSE <<>>) \o Map(to_csv_fresh, responses') ]_vars

\* C6 (as claimed): when the worksheet fails during the flush, the failure
\* ends as a warning: no uncaught exception, the debrief page is shown and
\* the file holds the session's rows.
C6_RemoteFailureNotFatal ==
    (Started /\ mirror \in {"fail", "partial"}) =>
        /\ error = "none"
        /\ warned
        /\ page = "debrief"
        /\ CountRows(csv, participant_id) >= Len(responses)

\* C7: while the cursor is short of the end of the trial list, neither the
\* file nor the worksheet holds a row of this session.
C7_NothingPersistedBeforeEnd ==
    (Started /\ idx < Len(stimuli)) =>
        /\ CountRows(csv, participant_id) = 0
        /\ CountRows(sheet, participant_id) = 0

\* One trial is answered, the next is on display, and the file of an earlier
\* participant is there
C7_Witness ==
    /\ Started
    /\ page = "trial"
    /\ idx = 1
    /\ Len(responses) = 1
    /\ csv_exists
    /\ idx < Len(stimuli)


----------------------------------------------------------------------------
(* C8..C10: the sampler *)

\* C8: from a bank that holds at least n_true true and n_false false
\* entries the sampler returns n_true + n_false entries, n_true of them
\* true and n_false false, no id twice, every entry an entry of the bank.
C8_BalancedSample ==
    (page # "none" /\ ~SampleFails(bank, n_true, n_false)) =>
        /\ error = "none"
        /\ Len(stimuli) = n_true + n_false
        /\ Count(stimuli, IsTrue) = n_true
        /\ Count(stimuli, IsFalse) = n_false
        /\ \A i, j \in 1..Len(stimuli) : stimuli[i].id = stimuli[j].id => i = j
        /\ \A i \in 1..Len(stimuli) :
             \E j \in 1..Len(bank) : bank[j] = [stimuli[i] EXCEPT !.show_photo = FALSE]

\* Two of three true statements and one false statement were drawn
C8_Witness ==
    /\ page = "instructions"
    /\ n_true = 2
    /\ n_false = 1
    /\ Count(bank, IsTrue) = 3
    /\ Len(stimuli) = 3

\* C9 (as claimed): the number of flagged true entries is the smaller of
\* n_photo_each and the number of true entries of the bank that carry a
\* photo, and the same for the false entries.
C9_PhotoCountOfBank ==
    page = "instructions" =>
        /\ Count(stimuli, IsTrueShown) = Min(n_photo_each, Count(bank, IsTruePhoto))
        /\ Count(stimuli, IsFalseShown) = Min(n_photo_each, Count(bank, IsFalsePhoto))

\* C9 (amended): the number of flagged true entries is the smaller of
\* n_photo_each and the number of true entries drawn into the list whose
\* photo the variant can flag (any photo in app, a .png photo in the other
\* variants); it is therefore at most the smaller of n_photo_each and the
\* number of true entries of the bank that carry a photo.  The same for the
\* false entries.
C9_PhotoCountOfSample ==
    page = "instructions" =>
        /\ Count(stimuli, IsTrueShown) = Min(n_photo_each, Count(stimuli, IsTrueUsable))
        /\ Count(stimuli, IsFalseShown) = Min(n_photo_each, Count(stimuli, IsFalseUsable))
        /\ Count(stimuli, IsTrueShown) <= Min(n_photo_each, Count(bank, IsTruePhoto))
        /\ Count(stimuli, IsFalseShown) <= Min(n_photo_each, Count(bank, IsFalsePhoto))

\* Every photo of the bank is a .png, and the draw took fewer true entries
\* with a photo than the quota and the bank allow
C9_Witness ==
    /\ page = "instructions"
    /\ \A j \in 1..Len(bank) : bank[j].photo \in {NoPhoto, <<"a", ".png">>}
    /\ Count(stimuli, IsTrueShown) < Min(n_photo_each, Count(bank, IsTruePhoto))
    /\ Count(stimuli, IsTrueShown) = Count(stimuli, IsTruePhoto)

\* C10: an entry of the trial list that is flagged show_photo has a photo
\* reference, and so has the stimulus of every response that records
\* show_photo.
C10_ShownHasPhoto ==
    Started =>
        /\ \A i \in 1..Len(stimuli) :
             stimuli[i].show_photo => stimuli[i].photo # NoPhoto
        /\ \A k \in 1..Len(responses) :
             responses[k].show_photo =>
                \E i \in 1..Len(stimuli) :
                    /\ stimuli[i].id = responses[k].stimulus_id
                    /\ stimuli[i].photo # NoPhoto

\* A response to a flagged stimulus and a response to an unflagged one
C10_Witness ==
    /\ Len(responses) = 2
    /\ \E k \in 1..2 : responses[k].show_photo
    /\ \E k \in 1..2 : ~responses[k].show_photo

----------------------------------------------------------------------------
(* C11..C13: the clock and the controller *)

\* The response time a response carries
RT(r) == IF IsAppRow(r) THEN r.response_time ELSE r.rt

\* C11 (as claimed): the clock is cleared in the step that records a
\* response, so the response time of every recorded response of trial i is
\* the time from the first display of trial i to the submit, and not the
\* time from the display of an earlier trial.
C11_LatencyFromFirstDisplay ==
    [][ Len(responses') = Len(responses) + 1
        => RT(responses'[Len(responses')]) = now - first_shown[idx + 1] ]_vars

\* The submit the last step handled was rejected by the validation
LastSubmitRejected ==
    event.kind = "submit" /\ Rejected(app, event.answer, event.text)

\* C12 (as claimed): the clock is started at most once per trial index:
\* while the session stays in trial i, a re-render or a rejected submit leaves
\* the clock at the value it got at the first display of trial i.
C12_ClockStartedOnce ==
    [][ ( /\ page = "trial"
          /\ idx' = idx
          /\ event'.kind = "rerun" \/ LastSubmitRejected' )
        => start_time' = start_time ]_vars

\* The cursor is at the end of the trial list of a started session
AtEnd == Started /\ idx = Len(stimuli)

\* C13: the session starts on the instructions, and the debrief is
\* absorbing: once the cursor equals the length of the trial list, no step
\* changes the cursor, the responses, the trial list or the state of the
\* controller, and no trial is displayed again.
C13_DebriefAbsorbing ==
    /\ [][ (page = "none" /\ Started') => page' = "instructions" ]_vars
    /\ [][ AtEnd => /\ page = "debrief"
                    /\ page' = "debrief"
                    /\ UNCHANGED <<idx, responses, stimuli, show_instructions>> ]_vars

\* The script ran again, at a later time, in a session that is in its debrief
C13_Witness ==
    /\ AtEnd
    /\ page = "debrief"
    /\ event.kind = "rerun"
    /\ now > first_shown[idx]

----------------------------------------------------------------------------
(* C15..C19: the rows of the mirror, the correct flag, the sampling *)

\* The step that ends the session: the script runs the debrief branch for
\* the first time
FirstFlushStep == page # "debrief" /\ page' = "debrief"

\* C15 (as claimed): the rows the flush appends to the remote mirror are
\* exactly the response rows of the session, in submission order; rows the
\* local store already held are not sent again.
C15_MirrorGetsSessionRows ==
    [][ (FirstFlushStep /\ mirror' = "ok")
        => sheet' = sheet \o Map(astype_str_fresh, responses') ]_vars

\* C16 (as claimed): every recorded response carries a flag correct that is
\* equal to (answer = truth).
C16_CorrectFlag ==
    \A k \in 1..Len(responses) :
       /\ "correct" \in DOMAIN responses[k]
       /\ responses[k].correct = (responses[k].answer = responses[k].truth)

\* The bank holds fewer true entries than n_true or fewer false entries than
\* n_false
PoolTooSmall ==
    \/ Count(bank, IsTrue) < n_true
    \/ Count(bank, IsFalse) < n_false

\* C17: with a bank that holds fewer than n_true true entries or fewer than
\* n_false false entries the sampling fails with an error and no session is
\* started: no trial list is stored, no trial is displayed and no response is
\* recorded, whatever runs follow.
C17_SmallPoolStartsNoSession ==
    PoolTooSmall =>
       /\ stimuli = <<>>
       /\ responses = <<>>
       /\ first_shown = <<>>
       /\ idx = 0
       /\ page \in {"none", "error"}
       /\ event.kind # "none" => (page = "error" /\ error = "ValueError")

\* The script ran again after the sampling failed
C17_Witness ==
    /\ PoolTooSmall
    /\ Count(bank, IsFalse) >= n_false
    /\ event.kind = "rerun"
    /\ error = "ValueError"

\* C19: the sampling takes effect at most once per session: the trial list
\* stored at the start is never replaced or altered by a later run, and the
\* participant id and the prompt group keep their first values.
C19_SampledOnce ==
    [][ /\ Started => stimuli' = stimuli
        /\ page # "none" => (participant_id' = participant_id /\ group' = group) ]_vars

\* The script ran again in the middle of the trials, with the list, the id
\* and the group of the first run
C19_Witness ==
    /\ event.kind = "rerun"
    /\ page = "trial"
    /\ idx = 1
    /\ Len(stimuli) = 2
    /\ participant_id = FreshPid
    /\ group \in Groups

----------------------------------------------------------------------------
(* C20: the photo quota over the returned list *)

\* C20 (as claimed): the number of flagged true entries of the returned list
\* is the smaller of n_photo_each and the number of true entries of the
\* returned list that carry a photo, and the same for the false entries.
C20_PhotoCountOfListed ==
    page = "instructions" =>
        /\ Count(stimuli, IsTrueShown) = Min(n_photo_each, Count(stimuli, IsTruePhoto))
        /\ Count(stimuli, IsFalseShown) = Min(n_photo_each, Count(stimuli, IsFalsePhoto))

\* An entry of the list with the given truth value that the variant could
\* flag and did not
LeftUnflagged(truth) ==
    \E i \in 1..Len(stimuli) :
       /\ stimuli[i].truth = truth
       /\ Usable(stimuli[i])
       /\ ~stimuli[i].show_photo

\* C20 (amended): for either truth value, the flagged entries of the
\* returned list are entries whose photo the variant can display (any photo
\* in app, a .png photo in the other variants), their number never exceeds
\* n_photo_each, and whenever it is below n_photo_each no unflagged entry of
\* that truth value with such a photo remains in the list: neither the early
\* stop nor the skipping of entries of a full quota leaves a quota unfilled.
C20_QuotaFilledFromList ==
    page = "instructions" =>
        /\ \A i \in 1..Len(stimuli) : stimuli[i].show_photo => Usable(stimuli[i])
        /\ Count(stimuli, IsTrueShown) <= n_photo_each
        /\ Count(stimuli, IsFalseShown) <= n_photo_each
        /\ Count(stimuli, IsTrueShown) < n_photo_each => ~LeftUnflagged(TRUE)
        /\ Count(stimuli, IsFalseShown) < n_photo_each => ~LeftUnflagged(FALSE)

\* The loop of a form variant met both quotas and left a true entry with a
\* .png photo unflagged
C20_Witness ==
    /\ page = "instructions"
    /\ app # "app"
    /\ Count(stimuli, IsTrueShown) = n_photo_each
    /\ Count(stimuli, IsFalseShown) = n_photo_each
    /\ LeftUnflagged(TRUE)

----------------------------------------------------------------------------
(* Two sessions in the debrief branch at the same time.  Streamlit runs the
   script of every browser session in its own thread of one server process;
   the steps of pd.read_csv / df.to_csv / the worksheet helper of two
   sessions interleave, and nothing in the scripts locks the file. *)

Sessions == {"A", "B"}

\* uuid.uuid4() of the two sessions
PeerPid(s) == IF s = "A" THEN FreshPid ELSE FreshPid + 1

\* ss.responses of a session that answered every trial of its list
PeerResponses(a, pid, list, txt) ==
    [k \in 1..Len(list) |-> MakeResponse(a, pid, "Explain", list[k], "True", txt, 0)]

\* open(file, "w") followed by the write of the buffered lines: the lines
\* replace the start of what the file holds at that moment
Overwrite(file, lines) == lines \o SubSeq(file, Len(lines) + 1, Len(file))

FlushFrame ==
    UNCHANGED <<Config, now, participant_id, group, stimuli, responses, idx,
                start_time, show_instructions, page, error, warned, mirror,
                event, first_shown>>

\* if os.path.exists(file): df = pd.concat([pd.read_csv(file), df]).
\* read_csv raises EmptyDataError on a file that holds nothing.
FlushRead(s) ==
    /\ peers[s].pc = "start"
    /\ peers' = [peers EXCEPT ![s] =
                   IF csv_exists /\ csv = <<>>
                   THEN [@ EXCEPT !.pc = "crashed", !.exists = TRUE]
                   ELSE [@ EXCEPT !.pc = "read", !.exists = csv_exists, !.file = csv]]
    /\ UNCHANGED <<csv_exists, csv, sheet>>
    /\ FlushFrame

\* df.to_csv(file, index=False), first half: the file is opened for writing,
\* which creates or truncates it
FlushOpen(s) ==
    /\ peers[s].pc = "read"
    /\ peers' = [peers EXCEPT ![s].pc = "writing"]
    /\ csv_exists' = TRUE
    /\ csv' = <<>>
    /\ UNCHANGED sheet
    /\ FlushFrame

\* df.to_csv(file, index=False), second half: the lines are written and the
\* file is closed
FlushWrite(s) ==
    /\ peers[s].pc = "writing"
    /\ peers' = [peers EXCEPT ![s].pc = "written"]
    /\ csv' = Overwrite(csv, MergedCsv(peers[s].exists, peers[s].file, peers[s].responses))
    /\ UNCHANGED <<csv_exists, sheet>>
    /\ FlushFrame

\* save_to_google_sheets(df) with the merged frame
FlushMirror(s) ==
    /\ peers[s].pc = "written"
    /\ peers' = [peers EXCEPT ![s].pc = "done"]
    /\ \E remote \in Remotes(app) :
         sheet' = sheet \o Appended(MergedSheetRows(peers[s].exists, peers[s].file,
                                                    peers[s].responses), remote)
    /\ UNCHANGED <<csv_exists, csv>>
    /\ FlushFrame

\* The run of a session is stopped between two of its steps (the server is
\* stopped, the thread is ended by a later run of the same session)
Interrupt(s) ==
    /\ peers[s].pc \in {"read", "writing", "written"}
    /\ peers' = [peers EXCEPT ![s].pc = "interrupted"]
    /\ UNCHANGED <<csv_exists, csv, sheet>>
    /\ FlushFrame

\* Both sessions have answered their trials and enter the debrief branch.
\* new_code never gets there.
FlushInit ==
    /\ app \in Apps \ {"new_code"}
    /\ bank = SessionBank
    /\ n_true = 1
    /\ n_false = 1
    /\ n_photo_each = 1
    /\ csv_exists \in BOOLEAN
    /\ csv = IF csv_exists THEN PriorFile(app, bank) ELSE <<>>
    /\ \E list \in Sampler(app, bank, n_true, n_false, n_photo_each) :
         \E ta, tb \in { <<"a">>, <<"N", "A">> } :
            peers = [s \in Sessions |->
                       [ pid |-> PeerPid(s),
                         responses |-> PeerResponses(app, PeerPid(s), list,
                                                     IF s = "A" THEN ta ELSE tb),
                         pc |-> "start", exists |-> FALSE, file |-> <<>> ]]
    /\ SessionUnstarted

FlushNext ==
    \E s \in Sessions :
       FlushRead(s) \/ FlushOpen(s) \/ FlushWrite(s) \/ FlushMirror(s) \/ Interrupt(s)

FlushSpec == FlushInit /\ [][FlushNext]_vars

\* The run of s has written its frame to the file
Flushed(s) == peers # <<>> /\ peers[s].pc \in {"written", "done"}

\* C14 (as claimed): when two sessions flush at the same time, the
\* read-merge-write of the local store is serialized, so no update is lost:
\* after both flushes the store holds the rows it held before and all rows
\* of both sessions.
C14_NoLostUpdate ==
    (\A s \in Sessions : Flushed(s)) =>
       \A s \in Sessions :
          /\ CountRows(csv, peers[s].pid) = Len(peers[s].responses)
          /\ CountRows(csv, PriorPid) >= CountRows(peers[s].file, PriorPid)

\* C18 (as claimed): the local write is atomic: a flush that is interrupted
\* at any point leaves the store with exactly the rows it held before, or
\* with those rows and all rows of the session, never with stored rows
\* missing or with part of the rows.
C18_AtomicWrite ==
    \A s, o \in Sessions :
       ( /\ peers # <<>>
         /\ peers[s].pc = "interrupted"
         /\ peers[o].pc = "start" )
       => /\ CountRows(csv, PriorPid) = CountRows(peers[s].file, PriorPid)
          /\ CountRows(csv, peers[s].pid) \in {0, Len(peers[s].responses)}

----------------------------------------------------------------------------
(* C21..C23: the instructions gate, the order of the responses, the clock
   of a valid submit *)

\* The instructions were left: a trial, or the debrief, is on the page
PastInstructions(p) == p \in {"trial", "debrief"}

\* Nothing of the trials has happened
NothingShown(shown, clk, resp) == shown = <<>> /\ clk = UnsetClock /\ resp = <<>>

\* C21 (as claimed): the session leaves the instructions only through the
\* acknowledgment of the participant; before it no trial is displayed, the
\* clock is not started and no response is recorded; after the first trial
\* was entered the instructions are never shown again, and a re-evaluation
\* changes nothing of the cursor, the responses and the clock.
C21_InstructionsGate ==
    [][ /\ (page = "instructions" /\ page' # "instructions")
           => (event'.kind = "start" /\ page' = "trial" /\ idx' = 0)
        /\ ~PastInstructions(page) => NothingShown(first_shown, start_time, responses)
        /\ ~PastInstructions(page') => NothingShown(first_shown', start_time', responses')
        /\ PastInstructions(page) => PastInstructions(page')
        /\ (PastInstructions(page) /\ event'.kind = "rerun")
           => UNCHANGED <<idx, responses, start_time>> ]_vars

\* C22: in every state of a session the number of responses equals the
\* cursor and the k-th response carries the stimulus id of the k-th entry of
\* the trial list; a step leaves the responses as they are or appends one,
\* so no stimulus is skipped, repeated or reordered and no response is
\* modified or removed.
C22_ResponsesFollowList ==
    [][ /\ Len(responses) = idx
        /\ Len(responses') = idx'
        /\ \A k \in 1..Len(responses') : responses'[k].stimulus_id = stimuli'[k].id
        /\ Len(responses') >= Len(responses)
        /\ Len(responses') <= Len(responses) + 1
        /\ SubSeq(responses', 1, Len(responses)) = responses ]_vars

\* A submit was rejected after the first response was recorded, and the
\* response is the one of the first entry of the list
C22_Witness ==
    /\ LastSubmitRejected
    /\ page = "trial"
    /\ idx = 1
    /\ Len(responses) = 1
    /\ responses[1].stimulus_id = stimuli[1].id
    /\ responses[1].stimulus_id # stimuli[2].id

\* The step handles a submit that passes the validation (Tick is the only
\* step that moves the time, and it keeps the last event)
ValidSubmitStep ==
    /\ event'.kind = "submit"
    /\ ~Rejected(app, event'.answer, event'.text)
    /\ now' = now

\* C23: whenever a valid submit is handled the clock holds a start time and
\* not the unset value, because the guard ran in the same script run before
\* the handler; the response time of a recorded response is the time since
\* that start and is never computed from an unset clock.
C23_ClockSetAtSubmit ==
    [][ (ValidSubmitStep /\ page = "trial")
        => /\ ClockGuard(start_time, now) # UnsetClock
           /\ ClockGuard(start_time, now) <= now
           /\ Len(responses') = Len(responses) + 1
              => RT(responses'[Len(responses')])
                   = now - ClockGuard(start_time, now) ]_vars

\* A form variant cleared the clock with the first response, the run that
\* followed started it for the second trial, and the second response
\* measures from there
C23_Witness ==
    /\ app \in {"new", "updated"}
    /\ Len(responses) = 2
    /\ RT(responses[1]) = 0
    /\ RT(responses[2]) = 1

=============================================================================
